---- MODULE Spec2Model ----
(***************************************************************************)
(* Model of summarize.py: the article collection lifecycle of one run      *)
(* (load articles.pkl, fetch the listing, merge by article_id, trim,       *)
(* persist, log, publish), repeated over runs, and the three list          *)
(* functions remove_article_by_id, trim_article_collection and             *)
(* return_articles applied to arbitrary lists.                             *)
(***************************************************************************)
EXTENDS Integers, Sequences, FiniteSets, TLC

\* ---------------------------------------------------------------- bounds
MaxId == 3          \* article ids are 1..MaxId
MaxRows == 2        \* rows of one listing page
MaxKeep == 1        \* largest configured max_items_to_keep
MaxLen == 3         \* longest collection handed to a list function on its own

Ids == 1..MaxId
\* The content a refetch may change: the score at fetch time, two sample values.
Scores == {5, 9}

\* An Article record: the dedupe key and the content that a refetch may change.
Article == [article_id : Ids, score : Scores]

RECURSIVE SeqsUpTo(_, _)
SeqsUpTo(S, n) ==
  IF n = 0 THEN {<<>>}
  ELSE LET shorter == SeqsUpTo(S, n - 1)
       IN shorter \cup {Append(s, x) : s \in {t \in shorter : Len(t) = n - 1}, x \in S}

\* Listing pages: the "athing" rows of the page in document order.
Pages == SeqsUpTo(Article, MaxRows)

\* settings.json as read at startup.
Settings == [load_new_articles : BOOLEAN,
             max_articles : 0..MaxRows,
             max_items_to_keep : 0..MaxKeep]

VARIABLES
  pc,               \* position of the run in the module-level pipeline
  settings,         \* settings.json of this run
  disk,             \* articles.pkl: [complete |-> a whole pickle, data |-> its list]
  disk0,            \* articles.pkl as it was when this run started
  articles,         \* the in-memory collection
  articles_to_load, \* the batch return_articles gave
  i,                \* index of the merge loop's next record
  written,          \* the outputs this run has opened for writing
  exc,              \* the exception that ended the run, "none" if none
  fn,               \* the list operation applied on its own, "idle" before it
  fnInput,          \* the list it was given
  fnArg,            \* its second argument (article_id, max_size or max_articles)
  fnBatch,          \* the batch given to the merge loop
  fnArticles,       \* the list as the operation left it
  fnPrev,           \* the list before the batch was merged a second time
  fnResult          \* the flag remove_article_by_id returned

vars == <<pc, settings, disk, disk0, articles, articles_to_load, i, written, exc,
          fn, fnInput, fnArg, fnBatch, fnArticles, fnPrev, fnResult>>
runVars == <<pc, settings, disk, disk0, articles, articles_to_load, i, written, exc>>
fnVars == <<fn, fnInput, fnArg, fnBatch, fnArticles, fnPrev, fnResult>>

\* ------------------------------------------------------- list functions

\* Index of the first record of coll with the given article_id, 0 if none:
\* the enumerate loop of remove_article_by_id.
RECURSIVE ScanFrom(_, _, _)
ScanFrom(coll, id, index) ==
  IF index > Len(coll) THEN 0
  ELSE IF coll[index].article_id = id THEN index
  ELSE ScanFrom(coll, id, index + 1)

\* del article_collection[index]
DelIndex(coll, index) ==
  SubSeq(coll, 1, index - 1) \o SubSeq(coll, index + 1, Len(coll))

\* Mutant: reports the match but leaves the record in place.
remove_article_by_id_keep(coll, id) ==
  [collection |-> coll, found |-> ScanFrom(coll, id, 1) # 0]

\* Mutant: deletes the record after the match.
remove_article_by_id_next(coll, id) ==
  LET index == ScanFrom(coll, id, 1)
  IN IF index # 0
     THEN [collection |-> DelIndex(coll, IF index < Len(coll) THEN index + 1 ELSE index),
           found |-> TRUE]
     ELSE [collection |-> coll, found |-> FALSE]

\* remove_article_by_id: the list after the call and the returned flag.
remove_article_by_id(coll, id) ==
  LET index == ScanFrom(coll, id, 1)
  IN IF index # 0
     THEN [collection |-> DelIndex(coll, index), found |-> TRUE]
     ELSE [collection |-> coll, found |-> FALSE]

\* Mutant: pops the newest record instead of the oldest.
RECURSIVE trim_article_collection_poplast(_, _)
trim_article_collection_poplast(coll, max_size) ==
  IF Len(coll) > max_size
  THEN trim_article_collection_poplast(SubSeq(coll, 1, Len(coll) - 1), max_size)
  ELSE coll

\* trim_article_collection: while len(articles) > max_size: articles.pop(0)
RECURSIVE trim_article_collection(_, _)
trim_article_collection(coll, max_size) ==
  IF Len(coll) > max_size
  THEN trim_article_collection(Tail(coll), max_size)
  ELSE coll

\* The row loop of return_articles from row k on: append the row's Article,
\* count it, and break once article_count >= max_articles.
RECURSIVE RowLoop(_, _, _, _, _)
RowLoop(rows, k, acc, article_count, max_articles) ==
  IF k > Len(rows) THEN acc
  ELSE LET acc2 == Append(acc, rows[k])
           count2 == article_count + 1
       IN IF count2 >= max_articles THEN acc2
          ELSE RowLoop(rows, k + 1, acc2, count2, max_articles)

\* return_articles on a page whose rows all parse.
return_articles(rows, max_articles) == RowLoop(rows, 1, <<>>, 0, max_articles)

\* The body of the merge loop for one fetched article: remove by id, append.
MergeOne(coll, article) ==
  Append(remove_article_by_id(coll, article.article_id).collection, article)

\* The merge loop from batch record k on.
RECURSIVE MergeFrom(_, _, _)
MergeFrom(coll, batch, k) ==
  IF k > Len(batch) THEN coll
  ELSE MergeFrom(MergeOne(coll, batch[k]), batch, k + 1)

\* for article in articles_to_load: remove_article_by_id(...); articles.append(...)
Merge(coll, batch) == MergeFrom(coll, batch, 1)

\* No two records of s share an article_id.
UniqueIds(s) ==
  \A j, k \in DOMAIN s : s[j].article_id = s[k].article_id => j = k

\* ------------------------------------------------------------ one run

Terminal == {"done", "aborted", "crashed"}

\* pickle.load of articles.pkl succeeds.
Load ==
  /\ pc = "start"
  /\ disk.complete
  /\ articles' = disk.data
  /\ pc' = "loaded"
  /\ UNCHANGED <<settings, disk, disk0, articles_to_load, i, written, exc>>
  /\ UNCHANGED fnVars

\* open or pickle.load raises (file missing, unreadable, or not a whole pickle).
LoadFail ==
  /\ pc = "start"
  /\ pc' = "aborted"
  /\ exc' = "load"
  /\ UNCHANGED <<settings, disk, disk0, articles, articles_to_load, i, written>>
  /\ UNCHANGED fnVars

\* load_new_articles is false: the fetch and the merge loop are skipped.
SkipFetch ==
  /\ pc = "loaded"
  /\ ~settings.load_new_articles
  /\ pc' = "merge"
  /\ UNCHANGED <<settings, disk, disk0, articles, articles_to_load, i, written, exc>>
  /\ UNCHANGED fnVars

\* return_articles returns the batch of a page that fetched and parsed.
Fetch ==
  /\ pc = "loaded"
  /\ settings.load_new_articles
  /\ \E rows \in Pages :
       articles_to_load' = return_articles(rows, settings.max_articles)
  /\ i' = 1
  /\ pc' = "merge"
  /\ UNCHANGED <<settings, disk, disk0, articles, written, exc>>
  /\ UNCHANGED fnVars

\* Mutant: the RuntimeError is caught and the run goes on with an empty batch.
FetchFail_swallowed ==
  /\ pc = "loaded"
  /\ settings.load_new_articles
  /\ pc' = "merge"
  /\ exc' = "RuntimeError"
  /\ articles_to_load' = <<>>
  /\ i' = 1
  /\ UNCHANGED <<settings, disk, disk0, articles, written>>
  /\ UNCHANGED fnVars

\* fetch_soup raises RuntimeError on a request failure; nothing catches it.
FetchFail ==
  /\ pc = "loaded"
  /\ settings.load_new_articles
  /\ pc' = "aborted"
  /\ exc' = "RuntimeError"
  /\ UNCHANGED <<settings, disk, disk0, articles, articles_to_load, i, written>>
  /\ UNCHANGED fnVars

\* A row lacks an expected element (or the Article constructor raises):
\* the exception leaves return_articles and ends the run.
ParseFail ==
  /\ pc = "loaded"
  /\ settings.load_new_articles
  /\ pc' = "aborted"
  /\ exc' = "parse"
  /\ UNCHANGED <<settings, disk, disk0, articles, articles_to_load, i, written>>
  /\ UNCHANGED fnVars

\* One iteration of the merge loop: remove by id, then append.
MergeStep ==
  /\ pc = "merge"
  /\ i <= Len(articles_to_load)
  /\ articles' = MergeOne(articles, articles_to_load[i])
  /\ i' = i + 1
  /\ UNCHANGED <<pc, settings, disk, disk0, articles_to_load, written, exc>>
  /\ UNCHANGED fnVars

\* trim_article_collection(articles) with the configured max_items_to_keep.
Trim ==
  /\ pc = "merge"
  /\ i > Len(articles_to_load)
  /\ articles' = trim_article_collection(articles, settings.max_items_to_keep)
  /\ pc' = "trimmed"
  /\ UNCHANGED <<settings, disk, disk0, articles_to_load, i, written, exc>>
  /\ UNCHANGED fnVars

\* open("articles.pkl", "wb") truncates the file.
OpenForWrite ==
  /\ pc = "trimmed"
  /\ disk' = [complete |-> FALSE, data |-> <<>>]
  /\ written' = written \cup {"articles.pkl"}
  /\ pc' = "saving"
  /\ UNCHANGED <<settings, disk0, articles, articles_to_load, i, exc>>
  /\ UNCHANGED fnVars

\* pickle.dump(articles, f) and the close of the with block.
Dump ==
  /\ pc = "saving"
  /\ disk' = [complete |-> TRUE, data |-> articles]
  /\ pc' = "saved"
  /\ UNCHANGED <<settings, disk0, articles, articles_to_load, i, written, exc>>
  /\ UNCHANGED fnVars

\* log(articles) writes output.txt and pretty.txt.
Log ==
  /\ pc = "saved"
  /\ written' = written \cup {"log"}
  /\ pc' = "logged"
  /\ UNCHANGED <<settings, disk, disk0, articles, articles_to_load, i, exc>>
  /\ UNCHANGED fnVars

\* The feed is rebuilt from the collection and saved.
Publish ==
  /\ pc = "logged"
  /\ written' = written \cup {"feed"}
  /\ pc' = "done"
  /\ UNCHANGED <<settings, disk, disk0, articles, articles_to_load, i, exc>>
  /\ UNCHANGED fnVars

\* The process dies (kill, power loss) wherever it is; its memory is gone.
Crash ==
  /\ pc \notin Terminal
  /\ pc' = "crashed"
  /\ articles' = <<>>
  /\ articles_to_load' = <<>>
  /\ i' = 1
  /\ UNCHANGED <<settings, disk, disk0, written, exc>>
  /\ UNCHANGED fnVars

\* The script is started again: settings.json is read, nothing is in memory.
NewRun ==
  /\ pc \in Terminal
  /\ pc' = "start"
  /\ settings' \in Settings
  /\ disk0' = disk
  /\ articles' = <<>>
  /\ articles_to_load' = <<>>
  /\ i' = 1
  /\ written' = {}
  /\ exc' = "none"
  /\ UNCHANGED disk
  /\ UNCHANGED fnVars

\* No list operation is applied on its own.
FnIdle ==
  /\ fn = "idle"
  /\ fnInput = <<>>
  /\ fnArg = 0
  /\ fnBatch = <<>>
  /\ fnArticles = <<>>
  /\ fnPrev = <<>>
  /\ fnResult = FALSE

\* The first start, with articles.pkl holding an empty collection.
Init ==
  /\ pc = "start"
  /\ settings \in Settings
  /\ disk = [complete |-> TRUE, data |-> <<>>]
  /\ disk0 = disk
  /\ articles = <<>>
  /\ articles_to_load = <<>>
  /\ i = 1
  /\ written = {}
  /\ exc = "none"
  /\ FnIdle

Next ==
  \/ Load
  \/ LoadFail
  \/ SkipFetch
  \/ Fetch
  \/ FetchFail
  \/ ParseFail
  \/ MergeStep
  \/ Trim
  \/ OpenForWrite
  \/ Dump
  \/ Log
  \/ Publish
  \/ Crash
  \/ NewRun

Spec == Init /\ [][Next]_vars

\* ----------------------------------------- the list operations on their own

\* No run is in progress.
RunIdle ==
  /\ pc = "start"
  /\ settings = [load_new_articles |-> FALSE, max_articles |-> 0, max_items_to_keep |-> 0]
  /\ disk = [complete |-> TRUE, data |-> <<>>]
  /\ disk0 = disk
  /\ articles = <<>>
  /\ articles_to_load = <<>>
  /\ i = 1
  /\ written = {}
  /\ exc = "none"

\* Any list of Article records up to MaxLen, repeated ids included.
InitFn ==
  /\ RunIdle
  /\ fn = "idle"
  /\ fnInput \in SeqsUpTo(Article, MaxLen)
  /\ fnArg = 0
  /\ fnBatch = <<>>
  /\ fnArticles = fnInput
  /\ fnPrev = <<>>
  /\ fnResult = FALSE

\* remove_article_by_id(fnInput, id)
CallRemove ==
  /\ fn = "idle"
  /\ \E id \in Ids :
       /\ fnArg' = id
       /\ fnArticles' = remove_article_by_id(fnInput, id).collection
       /\ fnResult' = remove_article_by_id(fnInput, id).found
  /\ fn' = "remove_article_by_id"
  /\ UNCHANGED <<fnInput, fnBatch, fnPrev>>
  /\ UNCHANGED runVars

\* trim_article_collection(fnInput, max_size)
CallTrim ==
  /\ fn = "idle"
  /\ \E max_size \in 0..MaxLen :
       /\ fnArg' = max_size
       /\ fnArticles' = trim_article_collection(fnInput, max_size)
  /\ fn' = "trim_article_collection"
  /\ UNCHANGED <<fnInput, fnBatch, fnPrev, fnResult>>
  /\ UNCHANGED runVars

\* return_articles on a page whose rows are fnInput.
CallReturnArticles ==
  /\ fn = "idle"
  /\ \E max_articles \in 0..MaxLen :
       /\ fnArg' = max_articles
       /\ fnArticles' = return_articles(fnInput, max_articles)
  /\ fn' = "return_articles"
  /\ UNCHANGED <<fnInput, fnBatch, fnPrev, fnResult>>
  /\ UNCHANGED runVars

\* The merge loop on a collection of unique ids (the collections a run holds)
\* and any batch.
CallMerge ==
  /\ fn = "idle"
  /\ UniqueIds(fnInput)
  /\ \E batch \in Pages :
       /\ fnBatch' = batch
       /\ fnArticles' = Merge(fnInput, batch)
  /\ fn' = "merged"
  /\ UNCHANGED <<fnInput, fnArg, fnPrev, fnResult>>
  /\ UNCHANGED runVars

\* The same batch is fetched and merged again.
CallMergeAgain ==
  /\ fn = "merged"
  /\ fnPrev' = fnArticles
  /\ fnArticles' = Merge(fnArticles, fnBatch)
  /\ fn' = "merged twice"
  /\ UNCHANGED <<fnInput, fnArg, fnBatch, fnResult>>
  /\ UNCHANGED runVars

NextFn ==
  \/ CallRemove
  \/ CallTrim
  \/ CallReturnArticles
  \/ CallMerge
  \/ CallMergeAgain

SpecFn == InitFn /\ [][NextFn]_vars

\* ------------------------------------------------------------ properties

\* The article ids of the records of s.
IdsOf(s) == {s[k].article_id : k \in DOMAIN s}

\* How many records of s carry the id.
CountId(s, id) == Cardinality({k \in DOMAIN s : s[k].article_id = id})

\* The index of the last record of s with the id (s holds one).
LastIndex(s, id) ==
  CHOOSE k \in DOMAIN s :
    /\ s[k].article_id = id
    /\ \A j \in DOMAIN s : s[j].article_id = id => j <= k

\* s without the records whose id occurs again later in s.
RECURSIVE KeepLastFrom(_, _)
KeepLastFrom(s, k) ==
  IF k > Len(s) THEN <<>>
  ELSE IF \E j \in (k + 1)..Len(s) : s[j].article_id = s[k].article_id
       THEN KeepLastFrom(s, k + 1)
       ELSE <<s[k]>> \o KeepLastFrom(s, k + 1)
KeepLast(s) == KeepLastFrom(s, 1)

\* The records of s whose id is not in the set, in their order.
RECURSIVE Without(_, _)
Without(s, ids) ==
  IF s = <<>> THEN <<>>
  ELSE IF Head(s).article_id \in ids THEN Without(Tail(s), ids)
       ELSE <<Head(s)>> \o Without(Tail(s), ids)

\* The last n records of s (all of s when it has no more than n).
LastN(s, n) ==
  IF Len(s) <= n THEN s ELSE SubSeq(s, Len(s) - n + 1, Len(s))

\* The merge loop of the run has ended and the trimmer has not run yet.
MergeLoopDone == pc = "merge" /\ i > Len(articles_to_load)

\* C1. Dedupe correctness: after the merge loop, every article_id that is both
\* in the collection as loaded and in the fetched batch is carried by exactly
\* one record of the collection, and that record is the batch's copy (the
\* last one the batch holds for the id), not the loaded one.
C1_DedupeCorrect ==
  MergeLoopDone =>
    \A id \in IdsOf(disk0.data) \cap IdsOf(articles_to_load) :
      /\ CountId(articles, id) = 1
      /\ \A k \in DOMAIN articles :
           articles[k].article_id = id
             => articles[k] = articles_to_load[LastIndex(articles_to_load, id)]

\* A refetched id whose loaded copy differs from the batch's copy has been merged.
C1_Witness ==
  /\ MergeLoopDone
  /\ \E j \in DOMAIN disk0.data, k \in DOMAIN articles_to_load :
       /\ disk0.data[j].article_id = articles_to_load[k].article_id
       /\ disk0.data[j].score # articles_to_load[k].score
       /\ k = LastIndex(articles_to_load, articles_to_load[k].article_id)

\* C2. Uniqueness invariant: no two records of the in-memory collection, and
\* no two records of the persisted collection, share an article_id, in any
\* state of any sequence of runs.
C2_UniqueIds ==
  /\ UniqueIds(articles)
  /\ UniqueIds(disk.data)

\* A run that loaded a record and refetched its id has saved a non-empty collection.
C2_Witness ==
  /\ pc = "saved"
  /\ disk.data # <<>>
  /\ IdsOf(disk0.data) \cap IdsOf(articles_to_load) # {}
  /\ Len(articles_to_load) = 2

\* C8. Trim strictly after merge: the trimmer runs only once the merge loop
\* has ended, the file is opened for writing only after the trim, nothing
\* changes the collection between the trim and the end of the run, and in the
\* collection after the trim a fetched id is missing only if every id the
\* collection still holds was fetched in this run.
C8_FreshProtected ==
  /\ [](pc \in {"trimmed", "saving", "saved", "logged", "done"} =>
          (~(IdsOf(articles_to_load) \subseteq IdsOf(articles))
             => IdsOf(articles) \subseteq IdsOf(articles_to_load)))
  /\ [][/\ (pc' = "trimmed" /\ pc # "trimmed") =>
             /\ MergeLoopDone
             /\ articles' = LastN(articles, settings.max_items_to_keep)
        /\ (pc' = "saving" /\ pc # "saving") => pc = "trimmed"
        /\ (pc \in {"trimmed", "saving", "saved", "logged"} /\ pc' # "crashed")
             => articles' = articles]_vars

\* A loaded record that was not refetched and a fetched record have both been
\* evicted, and a fetched record is kept.
C8_Witness ==
  /\ pc = "trimmed"
  /\ articles # <<>>
  /\ ~(IdsOf(articles_to_load) \subseteq IdsOf(articles))
  /\ ~(IdsOf(disk0.data) \subseteq IdsOf(articles_to_load))

\* C6. Abort before write: once the load, the listing fetch or the listing
\* parse has raised, the run is aborted, it has opened no output for writing,
\* articles.pkl is as it was when the run started, and no record of a batch
\* has been merged into the in-memory collection.
C6_AbortBeforeWrite ==
  exc # "none" =>
    /\ pc = "aborted"
    /\ written = {}
    /\ disk = disk0
    /\ i = 1
    /\ articles \in {<<>>, disk0.data}

\* The listing fetch failed in a run that had loaded a non-empty collection.
C6_Witness ==
  /\ exc = "RuntimeError"
  /\ pc = "aborted"
  /\ articles # <<>>

\* C5. Crash-safe save: articles.pkl always holds a whole collection, and it
\* is the one the run started with unless this run has saved its own.
C5_CrashSafeSave ==
  /\ disk.complete
  /\ disk.data # disk0.data => "articles.pkl" \in written

\* C3. Trim invariant: after trim_article_collection(C, max_size) with
\* max_size >= 0 the list is no longer than max_size and is exactly the last
\* max_size records of C in their order (all of C when it was within the cap,
\* the empty list when max_size is 0).
C3_TrimInvariant ==
  fn = "trim_article_collection" =>
    /\ Len(fnArticles) <= fnArg
    /\ fnArticles = LastN(fnInput, fnArg)
    /\ fnArg = 0 => fnArticles = <<>>
    /\ Len(fnInput) <= fnArg => fnArticles = fnInput

\* A list longer than a positive cap has been trimmed.
C3_Witness ==
  /\ fn = "trim_article_collection"
  /\ fnArg > 0
  /\ Len(fnInput) > fnArg + 1

\* C10. remove_article_by_id returns True exactly when a record of the list
\* has the id; then the first such record, and only it, is gone and the
\* others keep their order; when it returns False the list is unchanged.
C10_RemoveFrame ==
  fn = "remove_article_by_id" =>
    /\ fnResult <=> fnArg \in IdsOf(fnInput)
    /\ fnResult =>
         \E k \in DOMAIN fnInput :
           /\ fnInput[k].article_id = fnArg
           /\ \A j \in 1..(k - 1) : fnInput[j].article_id # fnArg
           /\ Len(fnArticles) = Len(fnInput) - 1
           /\ \A j \in DOMAIN fnArticles :
                fnArticles[j] = IF j < k THEN fnInput[j] ELSE fnInput[j + 1]
    /\ ~fnResult => fnArticles = fnInput

\* The id was carried by two records, the first of them not at the head.
C10_Witness ==
  /\ fn = "remove_article_by_id"
  /\ fnResult
  /\ CountId(fnInput, fnArg) = 2
  /\ fnInput[1].article_id # fnArg

\* C7. Listing cap: return_articles returns at most max_articles records, a
\* prefix of the page's rows.
C7_ListingCap ==
  fn = "return_articles" =>
    /\ Len(fnArticles) <= fnArg
    /\ Len(fnArticles) <= Len(fnInput)
    /\ fnArticles = SubSeq(fnInput, 1, Len(fnArticles))

\* The batch repeats records the collection already holds: every batch record
\* is a record of the collection (same id, same content).
RefetchUnchanged ==
  /\ fnBatch # <<>>
  /\ \A k \in DOMAIN fnBatch : \E j \in DOMAIN fnInput : fnInput[j] = fnBatch[k]

\* C4 as stated. Merging an unchanged refetch keeps the length, puts the
\* batch's records at the end in batch order, keeps the other records in
\* their order, and a second merge of the batch changes nothing.
C4_RefetchMovesBatch ==
  (fn \in {"merged", "merged twice"} /\ RefetchUnchanged) =>
    LET result == IF fn = "merged" THEN fnArticles ELSE fnPrev
    IN /\ Len(result) = Len(fnInput)
       /\ Len(fnBatch) <= Len(result)
       /\ SubSeq(result, Len(result) - Len(fnBatch) + 1, Len(result)) = fnBatch
       /\ SubSeq(result, 1, Len(result) - Len(fnBatch))
            = Without(fnInput, IdsOf(fnBatch))
       /\ fn = "merged twice" => fnArticles = fnPrev

\* C4 amended. Merging an unchanged refetch keeps the length, puts the
\* batch's records, each id once at the place of its last occurrence in the
\* batch, at the end, keeps the other records in their order, and a second
\* merge of the batch changes nothing.
C4_RefetchMovesLastOccurrences ==
  (fn \in {"merged", "merged twice"} /\ RefetchUnchanged) =>
    LET result == IF fn = "merged" THEN fnArticles ELSE fnPrev
    IN /\ Len(result) = Len(fnInput)
       /\ result = Without(fnInput, IdsOf(fnBatch)) \o KeepLast(fnBatch)
       /\ fn = "merged twice" => fnArticles = fnPrev

\* An unchanged refetch of two records out of three has been merged twice,
\* and the first merge reordered the collection.
C4_Witness ==
  /\ fn = "merged twice"
  /\ RefetchUnchanged
  /\ Len(fnBatch) = 2
  /\ Len(fnInput) = 3
  /\ fnPrev # fnInput

\* C9. Duplicate ids within one batch: for an id the batch holds more than
\* once, the merged collection holds exactly one record with the id, it is
\* the batch's last occurrence, it stands after every record of the batch
\* merged before it that the collection still holds and after every record
\* the collection held before, and it is the collection's last record when
\* it is the batch's last.
C9_LastOccurrenceWins ==
  fn = "merged" =>
    \A id \in {x \in IdsOf(fnBatch) : CountId(fnBatch, x) > 1} :
      LET last == LastIndex(fnBatch, id)
      IN /\ CountId(fnArticles, id) = 1
         /\ \E p \in DOMAIN fnArticles :
              /\ fnArticles[p] = fnBatch[last]
              /\ \A q \in DOMAIN fnArticles :
                   (\/ fnArticles[q].article_id \notin IdsOf(fnBatch)
                    \/ LastIndex(fnBatch, fnArticles[q].article_id) < last)
                     => q < p
              /\ last = Len(fnBatch) => p = Len(fnArticles)

\* The batch held an id twice with different content, and the collection
\* held that id and another one.
C9_Witness ==
  /\ fn = "merged"
  /\ Len(fnInput) >= 2
  /\ \E j, k \in DOMAIN fnBatch :
       /\ j < k
       /\ fnBatch[j].article_id = fnBatch[k].article_id
       /\ fnBatch[j].score # fnBatch[k].score
       /\ fnBatch[j].article_id \in IdsOf(fnInput)

====
